---- MODULE Spec2Model ----
(***************************************************************************)
(* Model of python.py: a Streamlit page that reads a three-column          *)
(* financial statement, derives growth and share percentages               *)
(* (process_financial_data), shows the current ratio of both periods and   *)
(* offers an AI commentary button and a chat backed by a Gemini session.   *)
(*                                                                         *)
(* Streamlit runs the whole script from the top on every user interaction; *)
(* st.session_state (chat_messages, chat_session) and the widget values    *)
(* (the uploaded file) survive from one run to the next.  One action of    *)
(* the model is one such run.  An interaction that arrives while a run is  *)
(* under way stops that run at its next st.* call: the call raises a       *)
(* control exception that no "except Exception" catches, and what the run  *)
(* had written to st.session_state stays.  The run of the interrupting     *)
(* interaction is the next action.  What a stopped run did not render      *)
(* again stays in the browser as the run before left it, so the button and *)
(* the chat box of an earlier run can be the widget the user acts on.      *)
(*                                                                         *)
(* Numbers.  The statement values are integers here.  A quotient is kept   *)
(* exactly, as n/d * 10^e, so that the divisor 1e-9 the code substitutes   *)
(* for 0 is the value [n |-> 1, d |-> 1, e |-> -9].  The rounding of       *)
(* float64 arithmetic is not modelled.                                     *)
(* Text.  A label is the sequence of its Unicode code points.              *)
(***************************************************************************)
EXTENDS Integers, Sequences, FiniteSets, TLC

VARIABLES
    API_KEY,         \* TRUE when a key is configured (line 19)
    GEMINI_CLIENT,   \* TRUE when the client was built (line 23), FALSE for None
    uploaded_file,   \* the file_uploader's value (line 96)
    chat_messages,   \* st.session_state["chat_messages"]
    chat_session,    \* st.session_state["chat_session"]
    api_calls,       \* the external calls made so far, by kind
    df_processed,    \* the result of process_financial_data in the last run
    metrics,         \* the outcome of the current-ratio block in the last run
    screen,          \* the elements the last run rendered, in order
    clicked,         \* st.button's value in the last run (line 213)
    prompt,          \* the text submitted to st.chat_input in the last run, or ""
    stopped,         \* TRUE when the last run was stopped before its end
    page             \* the button and the chat box the browser shows

vars == <<API_KEY, GEMINI_CLIENT, uploaded_file, chat_messages, chat_session,
          api_calls, df_processed, metrics, screen, clicked, prompt,
          stopped, page>>

\* The longest statement table of the calculator specification.
MaxRows == 3

Range(s) == {s[i] : i \in 1..Len(s)}

-----------------------------------------------------------------------------
(* Exact quotients *)

Abs(x) == IF x < 0 THEN -x ELSE x

RECURSIVE Gcd(_, _)
Gcd(a, b) == IF b = 0 THEN a ELSE Gcd(b, a % b)

\* n/d * 10^e in lowest terms with a positive denominator; zero is 0/1 * 10^0.
QNorm(n, d, e) ==
    IF n = 0 THEN [n |-> 0, d |-> 1, e |-> 0]
    ELSE LET g == Gcd(Abs(n), Abs(d))
             s == IF d < 0 THEN -1 ELSE 1
         IN [n |-> s * (n \div g), d |-> s * (d \div g), e |-> e]

QInt(x) == QNorm(x, 1, 0)

QDiv(a, b) == QNorm(a.n * b.d, a.d * b.n, a.e - b.e)

QSub(a, b) == QNorm(a.n * b.d - b.n * a.d, a.d * b.d, a.e)

QTimes100(a) == QNorm(a.n * 100, a.d, a.e)

\* The literal 1e-9 of lines 50, 62 and 63.
EPSILON == [n |-> 1, d |-> 1, e |-> -9]

-----------------------------------------------------------------------------
(* Text matching: Series.str.contains(pat, case=False, na=False) *)

\* Series.str.contains(pat, case=False) searches with re.IGNORECASE, which
\* takes two characters for one another when their lower-case mappings
\* (unicode_tolower) are equal or are variants of one letter (i and dotless
\* i, s and long s, the Greek and Cyrillic letter variants): to every
\* character belongs a key, the smallest character its lower case is taken
\* for, and characters match when their keys are equal.  A character without
\* case is its own key and nobody else's.  CaseRules lists the characters
\* that are not their own key, as rules <<first, last, step, delta>>: the
\* key of first, first + step, ..., last is the character + delta.
CaseRules ==
    {
      <<65, 90, 1, 32>>, <<192, 214, 1, 32>>, <<216, 222, 1, 32>>,
      <<256, 302, 2, 1>>, <<304, 304, 1, -199>>, <<305, 305, 1, -200>>,
      <<306, 310, 2, 1>>, <<313, 327, 2, 1>>, <<330, 374, 2, 1>>,
      <<376, 376, 1, -121>>, <<377, 381, 2, 1>>, <<383, 383, 1, -268>>,
      <<385, 385, 1, 210>>, <<386, 388, 2, 1>>, <<390, 390, 1, 206>>,
      <<391, 391, 1, 1>>, <<393, 394, 1, 205>>, <<395, 395, 1, 1>>,
      <<398, 398, 1, 79>>, <<399, 399, 1, 202>>, <<400, 400, 1, 203>>,
      <<401, 401, 1, 1>>, <<403, 403, 1, 205>>, <<404, 404, 1, 207>>,
      <<406, 406, 1, 211>>, <<407, 407, 1, 209>>, <<408, 408, 1, 1>>,
      <<412, 412, 1, 211>>, <<413, 413, 1, 213>>, <<415, 415, 1, 214>>,
      <<416, 420, 2, 1>>, <<422, 422, 1, 218>>, <<423, 423, 1, 1>>,
      <<425, 425, 1, 218>>, <<428, 428, 1, 1>>, <<430, 430, 1, 218>>,
      <<431, 431, 1, 1>>, <<433, 434, 1, 217>>, <<435, 437, 2, 1>>,
      <<439, 439, 1, 219>>, <<440, 440, 1, 1>>, <<444, 444, 1, 1>>,
      <<452, 452, 1, 2>>, <<453, 453, 1, 1>>, <<455, 455, 1, 2>>,
      <<456, 456, 1, 1>>, <<458, 458, 1, 2>>, <<459, 475, 2, 1>>,
      <<478, 494, 2, 1>>, <<497, 497, 1, 2>>, <<498, 500, 2, 1>>,
      <<502, 502, 1, -97>>, <<503, 503, 1, -56>>, <<504, 542, 2, 1>>,
      <<544, 544, 1, -130>>, <<546, 562, 2, 1>>, <<570, 570, 1, 10795>>,
      <<571, 571, 1, 1>>, <<573, 573, 1, -163>>, <<574, 574, 1, 10792>>,
      <<577, 577, 1, 1>>, <<579, 579, 1, -195>>, <<580, 580, 1, 69>>,
      <<581, 581, 1, 71>>, <<582, 590, 2, 1>>, <<880, 882, 2, 1>>,
      <<886, 886, 1, 1>>, <<895, 895, 1, 116>>, <<902, 902, 1, 38>>,
      <<904, 906, 1, 37>>, <<908, 908, 1, 64>>, <<910, 911, 1, 63>>,
      <<913, 920, 1, 32>>, <<921, 921, 1, -84>>, <<922, 923, 1, 32>>,
      <<924, 924, 1, -743>>, <<925, 929, 1, 32>>, <<931, 931, 1, 31>>,
      <<932, 939, 1, 32>>, <<953, 953, 1, -116>>, <<956, 956, 1, -775>>,
      <<963, 963, 1, -1>>, <<975, 975, 1, 8>>, <<976, 976, 1, -30>>,
      <<977, 977, 1, -25>>, <<981, 981, 1, -15>>, <<982, 982, 1, -22>>,
      <<984, 1006, 2, 1>>, <<1008, 1008, 1, -54>>, <<1009, 1009, 1, -48>>,
      <<1012, 1012, 1, -60>>, <<1013, 1013, 1, -64>>, <<1015, 1015, 1, 1>>,
      <<1017, 1017, 1, -7>>, <<1018, 1018, 1, 1>>, <<1021, 1023, 1, -130>>,
      <<1024, 1039, 1, 80>>, <<1040, 1071, 1, 32>>, <<1120, 1152, 2, 1>>,
      <<1162, 1214, 2, 1>>, <<1216, 1216, 1, 15>>, <<1217, 1229, 2, 1>>,
      <<1232, 1326, 2, 1>>, <<1329, 1366, 1, 48>>, <<4256, 4293, 1, 7264>>,
      <<4295, 4295, 1, 7264>>, <<4301, 4301, 1, 7264>>,
      <<5024, 5103, 1, 38864>>, <<5104, 5109, 1, 8>>,
      <<7296, 7296, 1, -6222>>, <<7297, 7297, 1, -6221>>,
      <<7298, 7298, 1, -6212>>, <<7299, 7300, 1, -6210>>,
      <<7301, 7301, 1, -6211>>, <<7302, 7302, 1, -6204>>,
      <<7303, 7303, 1, -6180>>, <<7312, 7354, 1, -3008>>,
      <<7357, 7359, 1, -3008>>, <<7680, 7828, 2, 1>>, <<7835, 7835, 1, -58>>,
      <<7838, 7838, 1, -7615>>, <<7840, 7934, 2, 1>>, <<7944, 7951, 1, -8>>,
      <<7960, 7965, 1, -8>>, <<7976, 7983, 1, -8>>, <<7992, 7999, 1, -8>>,
      <<8008, 8013, 1, -8>>, <<8025, 8031, 2, -8>>, <<8040, 8047, 1, -8>>,
      <<8072, 8079, 1, -8>>, <<8088, 8095, 1, -8>>, <<8104, 8111, 1, -8>>,
      <<8120, 8121, 1, -8>>, <<8122, 8123, 1, -74>>, <<8124, 8124, 1, -9>>,
      <<8126, 8126, 1, -7289>>, <<8136, 8139, 1, -86>>,
      <<8140, 8140, 1, -9>>, <<8147, 8147, 1, -7235>>, <<8152, 8153, 1, -8>>,
      <<8154, 8155, 1, -100>>, <<8163, 8163, 1, -7219>>,
      <<8168, 8169, 1, -8>>, <<8170, 8171, 1, -112>>, <<8172, 8172, 1, -7>>,
      <<8184, 8185, 1, -128>>, <<8186, 8187, 1, -126>>,
      <<8188, 8188, 1, -9>>, <<8486, 8486, 1, -7517>>,
      <<8490, 8490, 1, -8383>>, <<8491, 8491, 1, -8262>>,
      <<8498, 8498, 1, 28>>, <<8544, 8559, 1, 16>>, <<8579, 8579, 1, 1>>,
      <<9398, 9423, 1, 26>>, <<11264, 11311, 1, 48>>, <<11360, 11360, 1, 1>>,
      <<11362, 11362, 1, -10743>>, <<11363, 11363, 1, -3814>>,
      <<11364, 11364, 1, -10727>>, <<11367, 11371, 2, 1>>,
      <<11373, 11373, 1, -10780>>, <<11374, 11374, 1, -10749>>,
      <<11375, 11375, 1, -10783>>, <<11376, 11376, 1, -10782>>,
      <<11378, 11378, 1, 1>>, <<11381, 11381, 1, 1>>,
      <<11390, 11391, 1, -10815>>, <<11392, 11490, 2, 1>>,
      <<11499, 11501, 2, 1>>, <<11506, 11506, 1, 1>>, <<42560, 42568, 2, 1>>,
      <<42570, 42570, 1, -35266>>, <<42571, 42571, 1, -35267>>,
      <<42572, 42604, 2, 1>>, <<42624, 42650, 2, 1>>, <<42786, 42798, 2, 1>>,
      <<42802, 42862, 2, 1>>, <<42873, 42875, 2, 1>>,
      <<42877, 42877, 1, -35332>>, <<42878, 42886, 2, 1>>,
      <<42891, 42891, 1, 1>>, <<42893, 42893, 1, -42280>>,
      <<42896, 42898, 2, 1>>, <<42902, 42920, 2, 1>>,
      <<42922, 42922, 1, -42308>>, <<42923, 42923, 1, -42319>>,
      <<42924, 42924, 1, -42315>>, <<42925, 42925, 1, -42305>>,
      <<42926, 42926, 1, -42308>>, <<42928, 42928, 1, -42258>>,
      <<42929, 42929, 1, -42282>>, <<42930, 42930, 1, -42261>>,
      <<42931, 42931, 1, 928>>, <<42932, 42946, 2, 1>>,
      <<42948, 42948, 1, -48>>, <<42949, 42949, 1, -42307>>,
      <<42950, 42950, 1, -35384>>, <<42951, 42953, 2, 1>>,
      <<42960, 42960, 1, 1>>, <<42966, 42968, 2, 1>>, <<42997, 42997, 1, 1>>,
      <<64262, 64262, 1, -1>>, <<65313, 65338, 1, 32>>,
      <<66560, 66599, 1, 40>>, <<66736, 66771, 1, 40>>,
      <<66928, 66938, 1, 39>>, <<66940, 66954, 1, 39>>,
      <<66956, 66962, 1, 39>>, <<66964, 66965, 1, 39>>,
      <<68736, 68786, 1, 64>>, <<71840, 71871, 1, 32>>,
      <<93760, 93791, 1, 32>>, <<125184, 125217, 1, 34>> }

InRule(c, r) == c \in r[1]..r[2] /\ (c - r[1]) % r[3] = 0

CaseKey(c) ==
    IF c < 128 THEN (IF c \in 65..90 THEN c + 32 ELSE c)
    ELSE LET hit == {r \in CaseRules : InRule(c, r)}
         IN IF hit = {} THEN c ELSE c + (CHOOSE r \in hit : TRUE)[4]

\* The character ch of the text matches the character p of the pattern.
char_matches(ch, p) == CaseKey(ch) = CaseKey(p)

\* pat, a text of letters, digits and spaces (the three patterns of the code
\* hold no character that is special in a regular expression), occurs in s
\* at some position, letters compared without case.
str_contains(s, pat) ==
    \E k \in 0..(Len(s) - Len(pat)) :
        \A i \in 1..Len(pat) : char_matches(s[k + i], pat[i])

\* "TỔNG CỘNG TÀI SẢN"
PAT_TONG_TAI_SAN == <<84, 7892, 78, 71, 32, 67, 7896, 78, 71, 32, 84, 192, 73, 32, 83, 7842, 78>>
\* "TÀI SẢN NGẮN HẠN"
PAT_TSNH == <<84, 192, 73, 32, 83, 7842, 78, 32, 78, 71, 7854, 78, 32, 72, 7840, 78>>
\* "NỢ NGẮN HẠN"
PAT_NO_NGAN_HAN == <<78, 7906, 32, 78, 71, 7854, 78, 32, 72, 7840, 78>>

-----------------------------------------------------------------------------
(* Input tables: rows of (Chỉ tiêu, Năm trước, Năm sau) as read_excel      *)
(* yields them.  A cell is a number, a string that parses as a number, any *)
(* other text, or empty.                                                   *)

NumCell(v) == [t |-> "num", v |-> v]
StrCell(v) == [t |-> "numstr", v |-> v]
TextCell == [t |-> "text", v |-> 0]
EmptyCell == [t |-> "missing", v |-> 0]

Row(label, prior, current) ==
    [chi_tieu |-> label, nam_truoc |-> prior, nam_sau |-> current]

\* "TỔNG CỘNG TÀI SẢN"
L_TTS_UPPER == <<84, 7892, 78, 71, 32, 67, 7896, 78, 71, 32, 84, 192, 73, 32, 83, 7842, 78>>
\* "C. Tổng cộng tài sản (270)"
L_TTS_MIXED == <<67, 46, 32, 84, 7893, 110, 103, 32, 99, 7897, 110, 103, 32, 116, 224, 105, 32, 115, 7843, 110, 32, 40, 50, 55, 48, 41>>
\* "A. Tài sản ngắn hạn"
L_TSNH == <<65, 46, 32, 84, 224, 105, 32, 115, 7843, 110, 32, 110, 103, 7855, 110, 32, 104, 7841, 110>>
\* "I. Nợ Ngắn Hạn"
L_NNH == <<73, 46, 32, 78, 7907, 32, 78, 103, 7855, 110, 32, 72, 7841, 110>>
\* "B. TÀI SẢN DÀI HẠN"
L_TSDH == <<66, 46, 32, 84, 192, 73, 32, 83, 7842, 78, 32, 68, 192, 73, 32, 72, 7840, 78>>
\* "tổng cộng tài sản ngắn hạn"
L_TTS_NH == <<116, 7893, 110, 103, 32, 99, 7897, 110, 103, 32, 116, 224, 105, 32, 115, 7843, 110, 32, 110, 103, 7855, 110, 32, 104, 7841, 110>>
\* "tổng cộng tàı ſản", written with a dotless i and a long s
L_TTS_OLD == <<116, 7893, 110, 103, 32, 99, 7897, 110, 103, 32, 116, 224, 305, 32, 383, 7843, 110>>

\* The labels that contain each indicator's text, read off the labels above.
AnchorLabels == {L_TTS_UPPER, L_TTS_MIXED, L_TTS_NH, L_TTS_OLD}
ShortTermAssetLabels == {L_TSNH, L_TTS_NH}
ShortTermLiabilityLabels == {L_NNH}

\* The rows the calculator specification builds its tables from.
CalcRows ==
    { Row(L_TTS_UPPER, NumCell(1000), NumCell(1200)),
      Row(L_TTS_UPPER, NumCell(0), NumCell(50)),
      Row(L_TTS_UPPER, TextCell, EmptyCell),
      Row(L_TTS_MIXED, NumCell(100), NumCell(150)),
      Row(L_TTS_MIXED, NumCell(500), NumCell(0)),
      Row(L_TSNH, NumCell(200), NumCell(300)),
      Row(L_TSNH, NumCell(500), NumCell(0)),
      Row(L_TSNH, EmptyCell, TextCell),
      Row(L_NNH, NumCell(100), NumCell(150)),
      Row(L_NNH, NumCell(0), NumCell(50)),
      Row(L_NNH, NumCell(500), NumCell(0)),
      Row(L_TSDH, NumCell(100), NumCell(150)),
      Row(L_TSDH, NumCell(200), NumCell(300)),
      Row(L_TSDH, NumCell(0), NumCell(50)),
      Row(L_TSDH, StrCell(150), NumCell(-50)),
      Row(L_TTS_NH, NumCell(200), NumCell(300)),
      Row(L_TTS_OLD, NumCell(100), NumCell(150)) }

-----------------------------------------------------------------------------
(* process_financial_data (lines 40-68) *)

\* pd.to_numeric(col, errors='coerce').fillna(0), one cell (line 46).
to_numeric_fillna(cell) == IF cell.t \in {"num", "numstr"} THEN cell.v ELSE 0

\* series.replace(0, 1e-9), one value (line 50).
replace_zero(x) == IF x = 0 THEN EPSILON ELSE QInt(x)

\* Lines 62-63: the divisor is the total, or 1e-9 when the total is 0.
divisor(total) == IF total # 0 THEN QInt(total) ELSE EPSILON

\* Line 49-51.
growth(prior, current) ==
    QTimes100(QDiv(QSub(QInt(current), QInt(prior)), replace_zero(prior)))

\* Lines 65-66.
share(value, div) == QTimes100(QDiv(QInt(value), div))

\* The values of str_contains on the labels of the tables above and the
\* three patterns of the code, computed once.
Patterns == {PAT_TONG_TAI_SAN, PAT_TSNH, PAT_NO_NGAN_HAN}
TableLabels ==
    {L_TTS_UPPER, L_TTS_MIXED, L_TSNH, L_NNH, L_TSDH, L_TTS_NH, L_TTS_OLD}
contains_of == [s \in TableLabels |-> [pat \in Patterns |-> str_contains(s, pat)]]

\* The positions of the rows whose label contains pat (the boolean mask of
\* lines 54, 161-166 and 207), in row order.
mask(labels, pat) == {i \in 1..Len(labels) : contains_of[labels[i]][pat]}

Min(S) == CHOOSE x \in S : \A y \in S : x <= y
Max(S) == CHOOSE x \in S : \A y \in S : x >= y

\* A slip: the last matching position instead of the first.
iloc_last(S) == Max(S)

\* .iloc[0] of the masked rows: the first matching position.
iloc0(S) == Min(S)

Labels(df) == [i \in 1..Len(df) |-> df[i].chi_tieu]

NoTable == [status |-> "none", rows |-> <<>>]

\* A slip: rows with a cell that is not a number are dropped (dropna) instead
\* of being given the value 0.
process_dropna(df) ==
    LET kept == SelectSeq(df, LAMBDA r : r.nam_truoc.t \in {"num", "numstr"}
                                         /\ r.nam_sau.t \in {"num", "numstr"})
        a == mask(Labels(kept), PAT_TONG_TAI_SAN)
    IN IF a = {} THEN [status |-> "ValueError", rows |-> <<>>]
       ELSE [status |-> "ok",
             rows |-> [i \in 1..Len(kept) |->
                 [chi_tieu |-> kept[i].chi_tieu,
                  nam_truoc |-> kept[i].nam_truoc.v,
                  nam_sau |-> kept[i].nam_sau.v,
                  toc_do_tang_truong |-> growth(kept[i].nam_truoc.v, kept[i].nam_sau.v),
                  ty_trong_nam_truoc |-> share(kept[i].nam_truoc.v,
                                               divisor(kept[iloc0(a)].nam_truoc.v)),
                  ty_trong_nam_sau |-> share(kept[i].nam_sau.v,
                                             divisor(kept[iloc0(a)].nam_sau.v))]]]

\* A slip: a table without the total-assets row is processed with totals of
\* 0 instead of being refused.
process_without_total(df) ==
    [status |-> "ok",
     rows |-> [i \in 1..Len(df) |->
         [chi_tieu |-> df[i].chi_tieu,
          nam_truoc |-> to_numeric_fillna(df[i].nam_truoc),
          nam_sau |-> to_numeric_fillna(df[i].nam_sau),
          toc_do_tang_truong |-> growth(to_numeric_fillna(df[i].nam_truoc),
                                        to_numeric_fillna(df[i].nam_sau)),
          ty_trong_nam_truoc |-> share(to_numeric_fillna(df[i].nam_truoc), EPSILON),
          ty_trong_nam_sau |-> share(to_numeric_fillna(df[i].nam_sau), EPSILON)]]]

process_financial_data(df) ==
    LET num == [i \in 1..Len(df) |->
                   [chi_tieu |-> df[i].chi_tieu,
                    nam_truoc |-> to_numeric_fillna(df[i].nam_truoc),
                    nam_sau |-> to_numeric_fillna(df[i].nam_sau)]]
        \* Lines 56-68, tong_tai_san_row being the selection of line 54.
        with_total(tong_tai_san_row) ==
            IF tong_tai_san_row = {}
            THEN [status |-> "ValueError", rows |-> <<>>]
            ELSE LET a == iloc0(tong_tai_san_row)
                     divisor_N_1 == divisor(num[a].nam_truoc)
                     divisor_N == divisor(num[a].nam_sau)
                 IN [status |-> "ok",
                     rows |-> [i \in 1..Len(df) |->
                         [chi_tieu |-> num[i].chi_tieu,
                          nam_truoc |-> num[i].nam_truoc,
                          nam_sau |-> num[i].nam_sau,
                          toc_do_tang_truong |-> growth(num[i].nam_truoc, num[i].nam_sau),
                          ty_trong_nam_truoc |-> share(num[i].nam_truoc, divisor_N_1),
                          ty_trong_nam_sau |-> share(num[i].nam_sau, divisor_N)]]]
    IN with_total(mask(Labels(df), PAT_TONG_TAI_SAN))

-----------------------------------------------------------------------------
(* The current-ratio block (lines 156-192) *)

NoValue == [text |-> "N/A", q |-> QInt(0)]
Infinite == [text |-> "inf", q |-> QInt(0)]
Finite(q) == [text |-> "number", q |-> q]

\* Lines 169-170: tsnh / no_ngan_han, or float('inf') when the liability is 0.
thanh_toan_hien_hanh(tsnh, no_ngan_han) ==
    IF no_ngan_han # 0 THEN Finite(QDiv(QInt(tsnh), QInt(no_ngan_han)))
    ELSE Infinite

\* The value argument of st.metric (lines 176, 185): the number, shown with
\* two decimals and the word for "times", or the infinity sign (U+221E),
\* written "infinity_sign" here.
metric_value(r) ==
    IF r.text # "inf" THEN [text |-> "times", q |-> r.q]
    ELSE [text |-> "infinity_sign", q |-> QInt(0)]

\* A slip: "or" for "and" in the test of line 180.
delta_value_either(r_N, r_N_1) ==
    IF r_N.text # "inf" \/ r_N_1.text # "inf"
    THEN [text |-> "number", q |-> QSub(r_N.q, r_N_1.q)]
    ELSE NoValue

\* Lines 179-181.
delta_value(r_N, r_N_1) ==
    IF r_N.text # "inf" /\ r_N_1.text # "inf"
    THEN [text |-> "number", q |-> QSub(r_N.q, r_N_1.q)]
    ELSE NoValue

NoMetrics ==
    [status |-> "none", N_1 |-> NoValue, N |-> NoValue,
     value_N_1 |-> NoValue, value_N |-> NoValue, delta |-> NoValue]

\* rows is the processed table.  IndexError: .iloc[0] of an empty selection
\* (lines 161-166); the ratios keep their initial "N/A" (lines 156-157).
current_ratio_block(rows) ==
    LET \* Lines 172-187, with the two ratios of lines 169-170.
        show(r_N, r_N_1) ==
            [status |-> "shown", N_1 |-> r_N_1, N |-> r_N,
             value_N_1 |-> metric_value(r_N_1),
             value_N |-> metric_value(r_N),
             delta |-> delta_value(r_N, r_N_1)]
        \* Lines 161-170, tsnh and nnh being the two selections.
        ratios(tsnh, nnh) ==
            IF tsnh = {} \/ nnh = {}
            THEN [NoMetrics EXCEPT !.status = "IndexError"]
            ELSE show(thanh_toan_hien_hanh(rows[iloc0(tsnh)].nam_sau,
                                           rows[iloc0(nnh)].nam_sau),
                      thanh_toan_hien_hanh(rows[iloc0(tsnh)].nam_truoc,
                                           rows[iloc0(nnh)].nam_truoc))
    IN ratios(mask(Labels(rows), PAT_TSNH), mask(Labels(rows), PAT_NO_NGAN_HAN))

-----------------------------------------------------------------------------
(* Files, chat turns, the chat session *)

NoFile == [kind |-> "none", rows |-> <<>>]
TableFile(rows) == [kind |-> "table", rows |-> rows]
\* A file on which read_excel (line 103) raises an exception that is not a
\* ValueError (a damaged workbook, a missing engine): caught at line 274.
UnreadableFile == [kind |-> "unreadable", rows |-> <<>>]
\* A file on which read_excel raises ValueError (content in which it
\* recognises no Excel format): caught at line 272.
UnrecognisedFile == [kind |-> "unrecognised", rows |-> <<>>]
\* A sheet that has not three columns: line 106 raises ValueError.
WrongColumnsFile == [kind |-> "wrong_columns", rows |-> <<>>]

R_TTS == Row(L_TTS_UPPER, NumCell(1000), NumCell(1200))
R_TSNH == Row(L_TSNH, NumCell(200), NumCell(300))
R_NNH == Row(L_NNH, NumCell(100), NumCell(150))

\* The files a user of the page specification uploads.
Files ==
    { TableFile(<<R_TTS, R_TSNH, R_NNH>>),
      TableFile(<<R_TSNH, R_NNH, R_TTS>>),
      TableFile(<<R_TTS, Row(L_TSNH, NumCell(500), NumCell(0)),
                  Row(L_NNH, NumCell(0), NumCell(50))>>),
      TableFile(<<R_TTS, R_NNH>>),
      TableFile(<<R_TTS, R_TSNH>>),
      TableFile(<<R_TSNH, R_NNH>>),
      TableFile(<<>>),
      UnreadableFile,
      UnrecognisedFile,
      WrongColumnsFile }

\* What the user types into the chat box, and how an external call ends.
Prompts == {"q1", "q2"}
Outcomes == {"ok", "APIError", "Exception"}

Message(role, content) == [role |-> role, content |-> content]

\* Line 133-134.
welcome_message == Message("assistant", "welcome")

None == [active |-> FALSE, system_instruction |-> <<>>, history |-> <<>>]

\* GEMINI_CLIENT.chats.create(model, system_instruction) (lines 119-130): a
\* session that carries the processed table in its system instruction and
\* has no turn yet.
chats_create(rows) ==
    [active |-> TRUE, system_instruction |-> rows, history |-> <<>>]

\* chat_session.send_message(prompt) that succeeds: the session keeps the
\* user turn and the model's answer.
send_message(session, text) ==
    [session EXCEPT !.history = @ \o <<Message("user", text),
                                       Message("model", "response")>>]

-----------------------------------------------------------------------------
(* One run of the script (lines 15-278).  The record st is the run's state: *)
(* the session state, the table and the ratios computed so far, the         *)
(* elements rendered so far, and, in stops, every state in which the run    *)
(* is left when it is stopped at one of the st.* calls it has come to.      *)

\* What a run leaves behind; stopped tells whether it was stopped.
left_by(st, stopped_early) ==
    [chat_session |-> st.chat_session, chat_messages |-> st.chat_messages,
     api_calls |-> st.api_calls, df_processed |-> st.df_processed,
     metrics |-> st.metrics, screen |-> st.screen, stopped |-> stopped_early]

\* An st.* call: a run stopped here is left as it is before the call, with
\* the element not rendered; otherwise the element e is rendered ("" for a
\* title, a widget's label, a subheader or a spinner, which screen does not
\* keep).
st_call(e, st) ==
    LET reached == [st EXCEPT !.stops = @ \cup {left_by(st, TRUE)}]
    IN IF e = "" THEN reached ELSE [reached EXCEPT !.screen = Append(@, e)]

\* get_ai_analysis (lines 71-92): the text st.info shows.
get_ai_analysis(client, gen) ==
    IF ~client THEN "ai:no_api_key"
    ELSE IF gen = "ok" THEN "ai:response"
    ELSE IF gen = "APIError" THEN "ai:api_error"
    ELSE "ai:unknown_error"

\* Lines 116-138; the st.error is line 137.
recreate_chat(client, create_ok, rows, st) ==
    IF ~client THEN st
    ELSE IF create_ok
    THEN [st EXCEPT !.chat_session = chats_create(rows),
                    !.chat_messages = <<welcome_message>>,
                    !.api_calls = @ \cup {"chats.create"}]
    ELSE LET failed == [st EXCEPT !.api_calls = @ \cup {"chats.create"}]
         IN [st_call("error:chat_init", failed) EXCEPT !.chat_session = None]

\* Lines 154-192: the subheader (154), the ratios (159-170), then the two
\* st.metric (174, 183) or the st.warning (190).
show_metrics(st, m) ==
    LET s1 == [st_call("", st) EXCEPT !.metrics = m]
    IN IF m.status = "IndexError"
       THEN st_call("warning:missing_indicator", s1)
       ELSE st_call("metric:N", st_call("metric:N_1", s1))

\* Line 207 takes .iloc[0] of the short-term-asset rows outside any inner
\* try: with no such row it raises IndexError.
data_for_ai_raises(rows) == mask(Labels(rows), PAT_TSNH) = {}

\* A slip: the click calls the model without the test of line 214.
analysis_button_unguarded(client, click, gen, st) ==
    LET shown == st_call("button:analyze", st)
    IN IF ~click THEN shown
       ELSE LET s1 == [st_call("", shown) EXCEPT
                          !.api_calls = @ \cup {"models.generate_content"}]
            IN st_call(get_ai_analysis(TRUE, gen), st_call("", s1))

\* Lines 213-220: the button (213); on a click with a client the spinner
\* (215), the call of get_ai_analysis (216), st.markdown (217) and st.info
\* (218); on a click without one the st.error (220).
analysis_button(client, click, gen, st) ==
    LET shown == st_call("button:analyze", st)
    IN IF ~click THEN shown
       ELSE IF client
       THEN LET s1 == [st_call("", shown) EXCEPT
                          !.api_calls = @ \cup {"models.generate_content"}]
            IN st_call(get_ai_analysis(client, gen), st_call("", s1))
       ELSE st_call("error:no_api_key", shown)

\* Lines 240-267, a submitted prompt: the user turn is recorded (240) and
\* rendered (243), the spinner starts (248), send_message is called (249);
\* its answer is rendered (253) and recorded (257), its failure is shown
\* (261, 266) and recorded (262, 267).
chat_input(text, send, st) ==
    LET s1 == [st EXCEPT !.chat_messages = Append(@, Message("user", text))]
        s2 == st_call("", st_call("chat_message:user", s1))
        s3 == [s2 EXCEPT !.api_calls = @ \cup {"send_message"}]
    IN IF send = "ok"
       THEN LET s4 == [s3 EXCEPT !.chat_session = send_message(@, text)]
            IN [st_call("chat_message:assistant", s4) EXCEPT
                   !.chat_messages = Append(@, Message("assistant", "response"))]
       ELSE IF send = "APIError"
       THEN [st_call("error:chat_api", s3) EXCEPT
                !.chat_messages = Append(@, Message("assistant", "error:api"))]
       ELSE [st_call("error:chat_unknown", s3) EXCEPT
                !.chat_messages = Append(@, Message("assistant", "error:unknown"))]

\* Lines 226-269: the subheader (226), then the turns so far (231-234) and
\* the chat box (237), or the notice (269).
chat_section(text, send, st) ==
    LET s0 == st_call("", st)
    IN IF s0.chat_session.active
       THEN LET s1 == IF s0.chat_messages = <<>> THEN s0
                      ELSE st_call("chat_history", s0)
                s2 == st_call("chat_input", s1)
            IN IF text # "" THEN chat_input(text, send, s2) ELSE s2
       ELSE st_call("info:chat_unavailable", s0)

\* Lines 142-195: the subheader (142), the table (145), the current-ratio
\* block (154-192) and the subheader of the commentary (195).
display(df, st) ==
    st_call("", show_metrics(st_call("dataframe", st_call("", st)),
                             current_ratio_block(df.rows)))

\* Lines 198-269: data_for_ai, whose IndexError is caught at line 274 and
\* shown at line 275, then the button and the chat.
commentary_and_chat(client, df, click, text, gen, send, st) ==
    IF data_for_ai_raises(df.rows)
    THEN st_call("error:file", st)
    ELSE chat_section(text, send, analysis_button(client, click, gen, st))

\* Lines 109-275, df being the result of process_financial_data (line 109):
\* its ValueError is caught at line 272 and shown at line 273.
analyse(client, df, click, text, create_ok, gen, send, st) ==
    IF df.status = "ValueError"
    THEN st_call("error:structure", st)
    ELSE commentary_and_chat(client, df, click, text, gen, send,
             display(df, recreate_chat(client, create_ok, df.rows,
                                       [st EXCEPT !.df_processed = df])))

\* The whole script.  st holds the session state kept from the run before;
\* the run starts with nothing rendered and no table.  The title is line 15;
\* line 26 shows its error in every run when a key is configured and the
\* client was not built; the uploader is line 96; without a file the notice
\* of line 278 is shown.
script(key, client, file, click, text, create_ok, gen, send, st) ==
    LET \* Lines 15-29.
        configure(s) ==
            IF key /\ ~client THEN st_call("error:client_init", st_call("", s))
            ELSE st_call("", s)
        \* Lines 101-278, after the uploader of line 96.
        upload_handler(s) ==
            IF file.kind = "none"
            THEN st_call("info:upload_a_file", s)
            ELSE IF file.kind = "unreadable"
            THEN st_call("error:file", s)
            ELSE IF file.kind \in {"unrecognised", "wrong_columns"}
            THEN st_call("error:structure", s)
            ELSE analyse(client, process_financial_data(file.rows),
                         click, text, create_ok, gen, send, s)
    IN upload_handler(st_call("", configure(st)))

\* The widgets of the analysis (lines 213 and 237) among rendered elements.
Widgets == {"button:analyze", "chat_input"}

\* One run: the widgets hold file, click and text, and the external calls
\* end as create_ok, gen and send say.  The run comes to its end or, when
\* another interaction can arrive meanwhile, is stopped at one of its st.*
\* calls.
Rerun(file, click, text, create_ok, gen, send, interruptible) ==
    LET st == [chat_session |-> chat_session, chat_messages |-> chat_messages,
               api_calls |-> api_calls, df_processed |-> NoTable,
               metrics |-> NoMetrics, screen |-> <<>>, stops |-> {}]
    IN \E run \in {script(API_KEY, GEMINI_CLIENT, file, click, text,
                          create_ok, gen, send, st)} :
       \E out \in {left_by(run, FALSE)}
                     \cup (IF interruptible THEN run.stops ELSE {}) :
          /\ uploaded_file' = file
          /\ clicked' = click
          /\ prompt' = text
          /\ chat_session' = out.chat_session
          /\ chat_messages' = out.chat_messages
          /\ api_calls' = out.api_calls
          /\ df_processed' = out.df_processed
          /\ metrics' = out.metrics
          /\ screen' = out.screen
          /\ stopped' = out.stopped
          /\ page' = (IF out.stopped THEN page ELSE {})
                        \cup (Range(out.screen) \cap Widgets)
          /\ UNCHANGED <<API_KEY, GEMINI_CLIENT>>

-----------------------------------------------------------------------------
(* The page: what a user can do.  The user acts on a widget the browser     *)
(* shows; the file uploader is there from the first run on.                 *)

\* The page after its first run: genai.Client (line 23) is built only with a
\* key and may raise (line 25).
Init ==
    /\ API_KEY \in BOOLEAN
    /\ GEMINI_CLIENT \in (IF API_KEY THEN BOOLEAN ELSE {FALSE})
    /\ uploaded_file = NoFile
    /\ chat_messages = <<>>
    /\ chat_session = None
    /\ api_calls = {}
    /\ df_processed = NoTable
    /\ metrics = NoMetrics
    /\ screen = (IF API_KEY /\ ~GEMINI_CLIENT
                 THEN <<"error:client_init", "info:upload_a_file">>
                 ELSE <<"info:upload_a_file">>)
    /\ clicked = FALSE
    /\ prompt = ""
    /\ stopped = FALSE
    /\ page = {}

\* The user puts a file into the uploader (line 96).
Upload ==
    \E f \in Files, create_ok \in BOOLEAN :
        Rerun(f, FALSE, "", create_ok, "ok", "ok", TRUE)

\* The user removes the file.
RemoveFile ==
    /\ uploaded_file.kind # "none"
    /\ Rerun(NoFile, FALSE, "", TRUE, "ok", "ok", TRUE)

\* The user presses the analysis button on the page (line 213).
ClickAnalyze ==
    /\ "button:analyze" \in page
    /\ \E create_ok \in BOOLEAN, gen \in Outcomes :
           Rerun(uploaded_file, TRUE, "", create_ok, gen, "ok", TRUE)

\* The user submits a prompt into the chat box on the page (line 237).
ChatSubmit ==
    /\ "chat_input" \in page
    /\ \E p \in Prompts, create_ok \in BOOLEAN, send \in Outcomes :
           Rerun(uploaded_file, FALSE, p, create_ok, "ok", send, TRUE)

Next == Upload \/ RemoveFile \/ ClickAnalyze \/ ChatSubmit

Spec == Init /\ [][Next]_vars

-----------------------------------------------------------------------------
(* The calculator on every table of at most MaxRows rows: the run that      *)
(* follows the upload of the table, without a key and run to its end.       *)

InitCalc ==
    /\ API_KEY = FALSE
    /\ GEMINI_CLIENT = FALSE
    /\ \E k \in 0..MaxRows : \E t \in [1..k -> CalcRows] :
           uploaded_file = TableFile(t)
    /\ chat_messages = <<>>
    /\ chat_session = None
    /\ api_calls = {}
    /\ df_processed = NoTable
    /\ metrics = NoMetrics
    /\ screen = <<>>
    /\ clicked = FALSE
    /\ prompt = ""
    /\ stopped = FALSE
    /\ page = {}

FirstRun ==
    /\ screen = <<>>
    /\ Rerun(uploaded_file, FALSE, "", TRUE, "ok", "ok", FALSE)

NextCalc == FirstRun

SpecCalc == InitCalc /\ [][NextCalc]_vars

-----------------------------------------------------------------------------
(* What the claims are stated with.  The expected values are computed from  *)
(* the uploaded rows, independently of the operators above: a label counts  *)
(* as an indicator's row when it is listed in AnchorLabels,                 *)
(* ShortTermAssetLabels or ShortTermLiabilityLabels.                        *)

IsPrefix(s, t) == Len(s) <= Len(t) /\ \A i \in 1..Len(s) : s[i] = t[i]

\* The number a cell stands for once text and empty cells count as 0.
CellValue(cell) ==
    CASE cell.t = "num" -> cell.v
      [] cell.t = "numstr" -> cell.v
      [] OTHER -> 0

RowsWith(rows, labels) == {i \in 1..Len(rows) : rows[i].chi_tieu \in labels}
HasRow(rows, labels) == RowsWith(rows, labels) # {}
FirstRow(rows, labels) ==
    CHOOSE i \in RowsWith(rows, labels) : \A j \in RowsWith(rows, labels) : i <= j

\* q is num / den * 100, where a den of 0 stands for the divisor 1e-9.
IsPercentOf(q, num, den) ==
    /\ q.d > 0
    /\ IF den # 0
       THEN q.n * den = num * 100 * q.d /\ q.e = 0
       ELSE q.n = num * 100 * q.d /\ q.e = (IF num = 0 THEN 0 ELSE 9)

\* q is num / den, den not 0.
IsQuotientOf(q, num, den) == q.d > 0 /\ q.n * den = num * q.d /\ q.e = 0

InputRows == uploaded_file.rows
RunDone == screen # <<>>

\* C1: a table with a total-assets row is processed into a table of as many
\* rows, whose labels are the input's labels in the input's order.
C1_RowsPreserved ==
    (RunDone /\ uploaded_file.kind = "table" /\ HasRow(InputRows, AnchorLabels))
        => /\ df_processed.status = "ok"
           /\ Len(df_processed.rows) = Len(InputRows)
           /\ \A i \in 1..Len(InputRows) :
                  df_processed.rows[i].chi_tieu = InputRows[i].chi_tieu

\* A processed table of three rows with three different labels, one of them
\* with cells that are not numbers.
C1_Witness ==
    /\ df_processed.status = "ok"
    /\ Len(InputRows) = 3
    /\ Cardinality({InputRows[i].chi_tieu : i \in 1..3}) = 3
    /\ \E i \in 1..3 : InputRows[i].nam_truoc.t = "text"

\* C2: with text and empty cells counted as 0, every output row has
\* growth = (current - prior) / P * 100 with P the prior, or 1e-9 for a prior
\* of 0, and shares prior / A1 * 100 and current / A2 * 100 with A1, A2 the
\* values of the first total-assets row, or 1e-9 for 0.  100 -> 150 is a
\* growth of 50; 200 and 300 against totals of 1000 and 1200 are shares of 20
\* and 25; 0 -> 50 is a growth of 5000 * 10^9, positive and finite.
C2_Percentages ==
    (RunDone /\ uploaded_file.kind = "table" /\ HasRow(InputRows, AnchorLabels))
        => LET a == FirstRow(InputRows, AnchorLabels)
               A1 == CellValue(InputRows[a].nam_truoc)
               A2 == CellValue(InputRows[a].nam_sau)
           IN /\ df_processed.status = "ok"
              /\ Len(df_processed.rows) = Len(InputRows)
              /\ \A i \in 1..Len(InputRows) :
                    LET p == CellValue(InputRows[i].nam_truoc)
                        c == CellValue(InputRows[i].nam_sau)
                        out == df_processed.rows[i]
                    IN /\ out.nam_truoc = p
                       /\ out.nam_sau = c
                       /\ IsPercentOf(out.toc_do_tang_truong, c - p, p)
                       /\ IsPercentOf(out.ty_trong_nam_truoc, p, A1)
                       /\ IsPercentOf(out.ty_trong_nam_sau, c, A2)
                       /\ (p = 100 /\ c = 150)
                             => out.toc_do_tang_truong = [n |-> 50, d |-> 1, e |-> 0]
                       /\ (p = 0 /\ c = 50)
                             => out.toc_do_tang_truong = [n |-> 5000, d |-> 1, e |-> 9]
                       /\ (A1 = 1000 /\ A2 = 1200 /\ p = 200 /\ c = 300)
                             => /\ out.ty_trong_nam_truoc = [n |-> 20, d |-> 1, e |-> 0]
                                /\ out.ty_trong_nam_sau = [n |-> 25, d |-> 1, e |-> 0]

\* A processed table with two total-assets rows of different values, the
\* first one 1000 / 1200, and a row 200 / 300.
C2_Witness ==
    /\ df_processed.status = "ok"
    /\ Len(InputRows) = 3
    /\ Cardinality(RowsWith(InputRows, AnchorLabels)) = 2
    /\ InputRows[FirstRow(InputRows, AnchorLabels)]
         = Row(L_TTS_UPPER, NumCell(1000), NumCell(1200))
    /\ \E i \in 1..3 : /\ InputRows[i].chi_tieu \in AnchorLabels
                       /\ InputRows[i].nam_truoc = NumCell(0)
                       /\ df_processed.rows[i].toc_do_tang_truong.e = 9
    /\ \E i \in 1..3 : /\ df_processed.rows[i].nam_truoc = 200
                       /\ df_processed.rows[i].ty_trong_nam_truoc = QInt(20)

\* C9: with both indicator rows in a processed table, each period's ratio is
\* the sentinel, shown as the infinity sign, when that period's short-term
\* liabilities are 0, and short-term assets / short-term liabilities
\* otherwise; the delta is the difference of the two ratios when neither is
\* the sentinel and "N/A" when either is.
C9_CurrentRatio ==
    (/\ RunDone /\ uploaded_file.kind = "table"
     /\ HasRow(InputRows, AnchorLabels)
     /\ HasRow(InputRows, ShortTermAssetLabels)
     /\ HasRow(InputRows, ShortTermLiabilityLabels))
        => LET ts == InputRows[FirstRow(InputRows, ShortTermAssetLabels)]
               no == InputRows[FirstRow(InputRows, ShortTermLiabilityLabels)]
               Period(r, v, assets, liabilities) ==
                   IF liabilities = 0
                   THEN r.text = "inf" /\ v.text = "infinity_sign"
                   ELSE /\ r.text = "number" /\ v.text = "times"
                        /\ IsQuotientOf(r.q, assets, liabilities)
                        /\ v.q = r.q
               l1 == CellValue(no.nam_truoc)
               l2 == CellValue(no.nam_sau)
           IN /\ metrics.status = "shown"
              /\ "metric:N_1" \in Range(screen) /\ "metric:N" \in Range(screen)
              /\ Period(metrics.N_1, metrics.value_N_1, CellValue(ts.nam_truoc), l1)
              /\ Period(metrics.N, metrics.value_N, CellValue(ts.nam_sau), l2)
              /\ IF l1 = 0 \/ l2 = 0
                 THEN metrics.delta.text = "N/A"
                 ELSE /\ metrics.delta.text = "number"
                      /\ metrics.delta.q = QSub(metrics.N.q, metrics.N_1.q)

\* Short-term assets of 500 over liabilities of 0 in the prior period, a
\* number in the current period, and no delta.
C9_Witness ==
    /\ metrics.status = "shown"
    /\ metrics.N_1.text = "inf"
    /\ metrics.N.text = "number"
    /\ metrics.delta.text = "N/A"
    /\ \E i \in 1..Len(InputRows) :
          /\ InputRows[i].chi_tieu \in ShortTermAssetLabels
          /\ InputRows[i].nam_truoc = NumCell(500)

-----------------------------------------------------------------------------
(* The page *)

Shown(e) == e \in Range(screen)
IsTable == uploaded_file.kind = "table"
ChatReached == Shown("chat_input") \/ Shown("info:chat_unavailable")
\* The run handled a submitted prompt (line 243 rendered it).
SubmitHandled == prompt # "" /\ Shown("chat_message:user")

\* What the run rendered beyond the client error of line 26, which belongs
\* to no upload.
UploadOutput == SelectSeq(screen, LAMBDA e : e # "error:client_init")

\* C3: a run on a table without a total-assets row produces no table and no
\* ratio and renders no table, no metric, no warning, no commentary button
\* and no chat element; run to its end, it shows the structural-error
\* message and nothing else for the upload.
C3_StructuralErrorAborts ==
    (IsTable /\ ~HasRow(InputRows, AnchorLabels))
        => /\ UploadOutput = (IF stopped THEN <<>> ELSE <<"error:structure">>)
           /\ df_processed = NoTable
           /\ metrics = NoMetrics

\* A table with both liquidity rows and no total-assets row was uploaded.
C3_Witness ==
    /\ IsTable
    /\ ~HasRow(InputRows, AnchorLabels)
    /\ HasRow(InputRows, ShortTermAssetLabels)
    /\ HasRow(InputRows, ShortTermLiabilityLabels)
    /\ ~stopped
    /\ Shown("error:structure")

\* C4: a run to its end on a table with its total-assets row and without the
\* short-term-assets row or without the short-term-liabilities row shows the
\* missing-indicator warning and still renders the table, the commentary
\* section and the chat section, with no fatal error message.
C4_MissingIndicatorRecoverable ==
    (/\ ~stopped
     /\ IsTable /\ HasRow(InputRows, AnchorLabels)
     /\ \/ ~HasRow(InputRows, ShortTermAssetLabels)
        \/ ~HasRow(InputRows, ShortTermLiabilityLabels))
        => /\ Shown("warning:missing_indicator")
           /\ Shown("dataframe")
           /\ Shown("button:analyze")
           /\ ChatReached
           /\ ~Shown("error:file")
           /\ ~Shown("error:structure")

\* The part of C4 the code keeps: with only the short-term-liabilities row
\* missing the warning is shown and the run goes on.
C4_MissingLiabilitiesOnly ==
    (/\ ~stopped
     /\ IsTable /\ HasRow(InputRows, AnchorLabels)
     /\ HasRow(InputRows, ShortTermAssetLabels)
     /\ ~HasRow(InputRows, ShortTermLiabilityLabels))
        => /\ Shown("warning:missing_indicator")
           /\ Shown("dataframe")
           /\ Shown("button:analyze")
           /\ ChatReached
           /\ ~Shown("error:file")

\* The step is a run that came to its end, after a run that came to its end.
Uninterrupted == ~stopped /\ ~stopped'

\* An upload: the uploader's file changes to another file.
UploadEvent == uploaded_file' # uploaded_file /\ uploaded_file'.kind # "none"

\* C5: after the uninterrupted run of an upload, successful or not,
\* chat_messages holds no turn of the file before (at most the new welcome
\* message) and chat_session is either unset or the fresh session of the new
\* file's table.
C5_ChatResetOnUpload ==
    [][(UploadEvent /\ Uninterrupted) =>
          /\ Len(chat_messages') <= 1
          /\ chat_session'.active =>
                /\ df_processed'.status = "ok"
                /\ chat_session' = chats_create(df_processed'.rows)]_vars

\* C6: an uninterrupted chat submission on the same file finds the session of the earlier
\* submissions: the transcript and the session's history keep every earlier
\* turn, and the table snapshot of the session is the one it had.
C6_SessionKeptAcrossTurns ==
    [][(Uninterrupted /\ uploaded_file' = uploaded_file /\ chat_session.active
        /\ prompt' # "" /\ "chat_message:user" \in Range(screen'))
          => /\ IsPrefix(chat_messages, chat_messages')
             /\ IsPrefix(chat_session.history, chat_session'.history)
             /\ chat_session'.system_instruction = chat_session.system_instruction]_vars

\* The run showed the error of a failed chat call.
ChatFailed == Shown("error:chat_api") \/ Shown("error:chat_unknown")

\* C7: in uninterrupted runs, a failed chat call leaves the conversation as it was: the turns from
\* before the submit are still there in order, followed by the prompt and
\* the error text, the session is active, and it still holds the turns it
\* had exchanged.
C7_FailedCallKeepsConversation ==
    [][(Uninterrupted /\ prompt' # "" /\ chat_session.active
        /\ ("error:chat_api" \in Range(screen')
            \/ "error:chat_unknown" \in Range(screen')))
          => /\ Len(chat_messages') = Len(chat_messages) + 2
             /\ IsPrefix(chat_messages, chat_messages')
             /\ chat_session'.active
             /\ chat_session'.history = chat_session.history]_vars

\* C8: without a key there is no client, no external call is ever made,
\* chat_session is never set and no chat box is ever on the page; a run to
\* its end that renders the commentary button answers a click with the
\* missing-key error and renders the notice as the chat area, a table with a
\* total-assets row is processed and displayed, and its current ratios are
\* displayed when both liquidity rows are there.
C8_NoKeyDisablesOnlyAI ==
    ~API_KEY
        => /\ ~GEMINI_CLIENT
           /\ api_calls = {}
           /\ ~chat_session.active
           /\ chat_messages = <<>>
           /\ ~Shown("chat_input") /\ "chat_input" \notin page
           /\ \A e \in Range(screen) :
                 e \notin {"ai:response", "ai:api_error", "ai:unknown_error",
                           "error:client_init", "error:chat_init"}
           /\ ~stopped =>
                 /\ (clicked /\ Shown("button:analyze"))
                       => Shown("error:no_api_key")
                 /\ Shown("button:analyze") => Shown("info:chat_unavailable")
                 /\ (IsTable /\ HasRow(InputRows, AnchorLabels))
                       => /\ Shown("dataframe")
                          /\ df_processed.status = "ok"
                          /\ Len(df_processed.rows) = Len(InputRows)
                 /\ (/\ IsTable /\ HasRow(InputRows, AnchorLabels)
                     /\ HasRow(InputRows, ShortTermAssetLabels)
                     /\ HasRow(InputRows, ShortTermLiabilityLabels))
                       => /\ metrics.status = "shown"
                          /\ Shown("metric:N_1") /\ Shown("metric:N")
                          /\ Shown("button:analyze")

\* Without a client, the button of a fully displayed table was clicked.
C8_Witness ==
    /\ ~API_KEY
    /\ ~stopped
    /\ clicked
    /\ Shown("error:no_api_key")
    /\ Shown("dataframe")
    /\ metrics.status = "shown"
    /\ Shown("info:chat_unavailable")

AssistantTexts == {"response", "error:api", "error:unknown"}

\* C10: while chat_session is set, chat_messages starts with the welcome
\* message and its roles alternate assistant, user, assistant, ..., ending
\* on an assistant turn; a submit leaves the prompt as the last user turn,
\* followed by one assistant turn: the answer, or the error text of the
\* failure shown.
C10_TranscriptShape ==
    chat_session.active
        => /\ Len(chat_messages) >= 1
           /\ chat_messages[1] = welcome_message
           /\ \A i \in 1..Len(chat_messages) :
                 chat_messages[i].role = (IF i % 2 = 1 THEN "assistant" ELSE "user")
           /\ Len(chat_messages) % 2 = 1
           /\ SubmitHandled =>
                 LET n == Len(chat_messages)
                 IN /\ n >= 3
                    /\ chat_messages[n - 1] = Message("user", prompt)
                    /\ chat_messages[n].content \in AssistantTexts
                    /\ Shown("chat_message:assistant")
                          <=> chat_messages[n].content = "response"
                    /\ Shown("error:chat_api")
                          <=> chat_messages[n].content = "error:api"
                    /\ Shown("error:chat_unknown")
                          <=> chat_messages[n].content = "error:unknown"

\* The part of C10 the code keeps: the welcome message comes first and the
\* roles alternate, and a submit whose run comes to its end leaves the prompt
\* and one assistant turn as the last two turns.
C10_CompletedSubmits ==
    chat_session.active
        => /\ Len(chat_messages) >= 1
           /\ chat_messages[1] = welcome_message
           /\ \A i \in 1..Len(chat_messages) :
                 chat_messages[i].role = (IF i % 2 = 1 THEN "assistant" ELSE "user")
           /\ (SubmitHandled /\ ~stopped) =>
                 LET n == Len(chat_messages)
                 IN /\ n >= 3
                    /\ chat_messages[n - 1] = Message("user", prompt)
                    /\ chat_messages[n].content \in AssistantTexts

====
